---- MODULE Spec2Model ----
(***************************************************************************)
(* Horion Farms API (src/main.py, src/schemas.py): the delivery ETA        *)
(* estimator, order creation with price validation, and the Paystack       *)
(* payment initialiser / verifier, as a state machine over the "order"     *)
(* collection of the Data Store.                                           *)
(*                                                                         *)
(* Numbers.  Python floats are modelled in decimal fixed point:            *)
(*   - money in thousandths of a naira (MoneyScale units per naira);       *)
(*   - angles, sines, cosines as integers scaled by FxOne (1e8);           *)
(*   - coordinates in 1e-4 degree, distances and hours in 1e-4 km / hour;  *)
(*   - rounded response values (round(x, 1)) in tenths.                    *)
(* TLC integers are 32 bit and TLC stops on overflow, so every product is  *)
(* split so that it stays below 2^31 on the static table's coordinates.    *)
(*                                                                         *)
(* Text.  A string is a sequence of characters; a literal that is never    *)
(* inspected character by character is written as one fragment.            *)
(***************************************************************************)
EXTENDS Integers, Sequences, FiniteSets, TLC

VARIABLES
    dbConfigured,  \* database.db is not None (main.py lines 106, 138)
    secretKey,     \* os.getenv("PAYSTACK_SECRET_KEY") is set (lines 152, 192)
    orders,        \* the documents of the Data Store's "order" collection
    last           \* the last request handled: its operation, its input, what
                   \* the gateway did with the call (if one was made), the call,
                   \* and the response's status code and body

vars == <<dbConfigured, secretKey, orders, last>>

\* ------------------------------------------------------------------------
\* Fixed-point arithmetic standing for Python's float operations

FxOne == 100000000
FxHalf == 10000

Abs(x) == IF x < 0 THEN -x ELSE x

\* a * b on FxOne-scaled operands 0 <= a, b < 2^31 / FxHalf, truncated
MulFx(a, b) ==
    LET ah == a \div FxHalf
        al == a % FxHalf
        bh == b \div FxHalf
        bl == b % FxHalf
    IN  ah * bh + (ah * bl + al * bh) \div FxHalf + (al * bl) \div FxOne

RECURSIVE DivDigits(_, _, _, _)
DivDigits(r, b, acc, k) ==
    IF k = 0 THEN acc
    ELSE DivDigits((r * 10) % b, b, acc * 10 + (r * 10) \div b, k - 1)

\* a / b on FxOne-scaled operands, 0 <= a <= b, b > 0, by long division
DivFx(a, b) == IF a = b THEN FxOne ELSE DivDigits(a, b, 0, 8)

RECURSIVE SqrtSearch(_, _, _)
SqrtSearch(a, lo, hi) ==
    IF hi - lo <= 1 THEN lo
    ELSE LET mid == (lo + hi) \div 2
         IN  IF MulFx(mid, mid) <= a THEN SqrtSearch(a, mid, hi)
             ELSE SqrtSearch(a, lo, mid)

\* math.sqrt on a FxOne-scaled operand 0 <= a <= 2
sqrt(a) == IF a = 0 THEN 0 ELSE SqrtSearch(a, 0, 2 * FxOne)

\* math.radians of an angle given in 1e-4 degree: deg * pi / 180, FxOne-scaled
radians(d) ==
    LET m == Abs(d)
        r == m * 174 + (m * 5329) \div 10000 + (m * 2520) \div 100000000
    IN  IF d < 0 THEN -r ELSE r

\* Taylor series, summed until the term vanishes in fixed point
RECURSIVE SinSeries(_, _, _, _)
SinSeries(x2, term, n, acc) ==
    IF term = 0 THEN acc
    ELSE LET next == MulFx(term, x2) \div ((n + 1) * (n + 2))
         IN  SinSeries(x2, next, n + 2, IF (n \div 2) % 2 = 0 THEN acc + term ELSE acc - term)

\* math.sin (FxOne-scaled radians)
sin(x) ==
    LET m == Abs(x)
        s == SinSeries(MulFx(m, m), m, 1, 0)
    IN  IF x < 0 THEN -s ELSE s

\* math.cos (FxOne-scaled radians)
cos(x) == SinSeries(MulFx(Abs(x), Abs(x)), FxOne, 0, 0)

\* x / 2 and x ** 2 on FxOne-scaled floats
Half(x) == IF x < 0 THEN -((-x) \div 2) ELSE x \div 2
Square(x) == MulFx(Abs(x), Abs(x))

RECURSIVE AtanSeries(_, _, _, _)
AtanSeries(t2, pow, n, acc) ==
    IF pow \div n = 0 THEN acc
    ELSE AtanSeries(t2, MulFx(pow, t2), n + 2,
                    IF (n \div 2) % 2 = 0 THEN acc + pow \div n ELSE acc - pow \div n)

\* atan(t) for 0 <= t <= 1 through atan(t) = 2 atan(t / (1 + sqrt(1 + t^2)))
Atan01(t) ==
    LET u == DivFx(t, FxOne + sqrt(FxOne + MulFx(t, t)))
    IN  2 * AtanSeries(MulFx(u, u), u, 1, 0)

PiHalf == 157079633

\* math.atan2(y, x) for y >= 0, x >= 0, not both 0 (the first quadrant, where
\* haversine_km calls it)
atan2(y, x) ==
    IF y <= x THEN Atan01(DivFx(y, x)) ELSE PiHalf - Atan01(DivFx(x, y))

\* Python round(v, 1) of a value in 1e-4 units, in tenths (ties to even)
Round1(v) ==
    LET q == v \div 1000
        r == v % 1000
    IN  IF r > 500 \/ (r = 500 /\ q % 2 = 1) THEN q + 1 ELSE q

\* ------------------------------------------------------------------------
\* Delivery ETA (src/main.py 54-100)

\* hub => base_hours, per_km_min (in tenths of a minute), cold_chain
NIGERIA_CITY_HUBS ==
    [ Lagos           |-> [base_hours |-> 6,  per_km_min |-> 12, cold_chain |-> TRUE],
      Abuja           |-> [base_hours |-> 12, per_km_min |-> 10, cold_chain |-> TRUE],
      \* the remaining keys hold a space, so the table is completed below
      Ibadan          |-> [base_hours |-> 8,  per_km_min |-> 10, cold_chain |-> TRUE],
      Kano            |-> [base_hours |-> 16, per_km_min |-> 11, cold_chain |-> TRUE],
      Enugu           |-> [base_hours |-> 14, per_km_min |-> 10, cold_chain |-> TRUE] ]
    @@ ("Port Harcourt" :> [base_hours |-> 12, per_km_min |-> 11, cold_chain |-> TRUE])
    @@ ("Benin City"    :> [base_hours |-> 10, per_km_min |-> 10, cold_chain |-> TRUE])

\* city => (latitude, longitude) in 1e-4 degree
CITY_COORDS ==
    [ Lagos  |-> <<65244, 33792>>,
      Abuja  |-> <<90765, 73986>>,
      Ibadan |-> <<73775, 39470>>,
      Kano   |-> <<120022, 85919>>,
      Enugu  |-> <<65244, 75174>> ]
    @@ ("Port Harcourt" :> <<48156, 70498>>)
    @@ ("Benin City"    :> <<63350, 56037>>)

EarthRadiusKm == 6371

\* great-circle distance in 1e-4 km between two points given in 1e-4 degree
haversine_km(lat1, lon1, lat2, lon2) ==
    LET dlat == radians(lat2 - lat1)
        dlon == radians(lon2 - lon1)
        a    == Square(sin(Half(dlat)))
                + MulFx(MulFx(cos(radians(lat1)), cos(radians(lat2))),
                        Square(sin(Half(dlon))))
        c    == 2 * atan2(sqrt(a), sqrt(FxOne - a))
    IN  EarthRadiusKm * (c \div FxHalf) + (EarthRadiusKm * (c % FxHalf)) \div FxHalf


\* distance of every pair of the static table, computed once
KmTable ==
    [h \in DOMAIN CITY_COORDS |->
        [c \in DOMAIN CITY_COORDS |->
            haversine_km(CITY_COORDS[h][1], CITY_COORDS[h][2],
                         CITY_COORDS[c][1], CITY_COORDS[c][2])]]

\* ------------------------------------------------------------------------
\* Python / FastAPI plumbing

\* dict.get(key, default)
Get(d, k, default) == IF k \in DOMAIN d THEN d[k] ELSE default

\* raise HTTPException(status_code, detail), as FastAPI answers it
HTTPException(status, detail) == [code |-> status, body |-> [detail |-> detail]]

\* an exception no handler catches: FastAPI answers 500
Unhandled(exc) == [code |-> 500, body |-> [detail |-> <<"Internal Server Error">>, raised |-> exc]]

\* a handler's return value, answered 200
Ok(body) == [code |-> 200, body |-> body]

\* Python None, and an Optional[str] that is set
PyNone == [t |-> "null"]
PyStr(s) == [t |-> "str", v |-> s]

\* JSON values of a gateway answer, as res.json() parses them
JNull == PyNone
JBool(b) == [t |-> "bool", v |-> b]
JStr(s) == [t |-> "str", v |-> s]
JObj(f) == [t |-> "obj", v |-> f]

\* Python truth value of a JSON value
Truthy(j) ==
    CASE j.t = "null" -> FALSE
      [] j.t = "bool" -> j.v
      [] j.t = "str"  -> j.v # <<>>
      [] j.t = "obj"  -> DOMAIN j.v # {}

NoCall == [endpoint |-> "none"]
NoAnswer == [t |-> "none"]

\* eta's decision to reject (main.py line 93)
UnsupportedAndNotOr(city, hub) ==
    hub \notin DOMAIN CITY_COORDS /\ city \notin DOMAIN CITY_COORDS
Unsupported(city, hub) ==
    hub \notin DOMAIN CITY_COORDS \/ city \notin DOMAIN CITY_COORDS

\* the hub's service parameters (main.py line 95)
HubCfgAlwaysLagos(hub) == NIGERIA_CITY_HUBS["Lagos"]
HubCfg(hub) == Get(NIGERIA_CITY_HUBS, hub, NIGERIA_CITY_HUBS["Lagos"])

\* GET /eta?city=&hub=   (q: the query parameters given; hub defaults to "Lagos")
eta(q) ==
    LET city == q.city
        hub  == Get(q, "hub", "Lagos")
    IN  IF Unsupported(city, hub)
        THEN HTTPException(400, <<"Unsupported city or hub">>)
        ELSE IF hub \notin DOMAIN CITY_COORDS \/ city \notin DOMAIN CITY_COORDS
        THEN Unhandled("KeyError")
        ELSE LET hub_cfg == HubCfg(hub)
                 km      == KmTable[hub][city]
                 hours   == hub_cfg.base_hours * 10000 + (km * hub_cfg.per_km_min) \div 600
             IN  Ok([city |-> city, hub |-> hub, distance_km |-> Round1(km),
                     eta_hours |-> Round1(hours), cold_chain |-> hub_cfg.cold_chain])

\* ------------------------------------------------------------------------
\* Schemas (src/schemas.py)

MoneyScale == 1000

\* OrderItem: unit_price >= 0, quantity >= 1
IsOrderItem(it) == it.unit_price >= 0 /\ it.quantity >= 1

\* OrderCreate: subtotal, delivery_fee, total >= 0
IsOrderCreate(o) ==
    /\ \A i \in 1..Len(o.items) : IsOrderItem(o.items[i])
    /\ o.subtotal >= 0 /\ o.delivery_fee >= 0 /\ o.total >= 0

\* Order(...): the fields given plus the defaults of the schema
Order(kw) ==
    [items |-> kw.items, customer |-> kw.customer, subtotal |-> kw.subtotal,
     delivery_fee |-> kw.delivery_fee, total |-> kw.total,
     currency |-> Get(kw, "currency", "NGN"),
     status |-> Get(kw, "status", "pending"),
     payment_reference |-> Get(kw, "payment_reference", PyNone)]

PaymentMethods == {"card", "bank_transfer"}

\* PaymentInitResponse(...): mode, reference and payment_method are required
\* (no default), the other fields default to None; a missing required field
\* raises pydantic's ValidationError
PaymentInitResponse(kw) ==
    IF /\ {"mode", "reference", "payment_method"} \subseteq DOMAIN kw
       /\ kw.payment_method \in PaymentMethods
    THEN [ok |-> TRUE,
          model |-> [mode |-> kw.mode, reference |-> kw.reference,
                     payment_method |-> kw.payment_method,
                     authorization_url |-> Get(kw, "authorization_url", PyNone),
                     account_number |-> Get(kw, "account_number", PyNone),
                     account_name |-> Get(kw, "account_name", PyNone),
                     bank_name |-> Get(kw, "bank_name", PyNone),
                     instructions |-> Get(kw, "instructions", PyNone)]]
    ELSE [ok |-> FALSE, error |-> "ValidationError"]

\* PaymentVerifyResponse(...): all four fields are required
PaymentVerifyResponse(kw) ==
    IF {"status", "order_status", "reference", "paid"} \subseteq DOMAIN kw
    THEN [ok |-> TRUE,
          model |-> [status |-> kw.status, order_status |-> kw.order_status,
                     reference |-> kw.reference, paid |-> kw.paid]]
    ELSE [ok |-> FALSE, error |-> "ValidationError"]


\* ------------------------------------------------------------------------
\* The Data Store: the "order" collection, a sequence of documents, each with
\* the ObjectId the store gave it (a sequence of ObjectIdLen hex digit values)

ObjectIdLen == 24

HexVal ==
    [c \in {"0", "1", "2", "3", "4", "5", "6", "7", "8", "9"} |->
        CASE c = "0" -> 0 [] c = "1" -> 1 [] c = "2" -> 2 [] c = "3" -> 3
          [] c = "4" -> 4 [] c = "5" -> 5 [] c = "6" -> 6 [] c = "7" -> 7
          [] c = "8" -> 8 [] c = "9" -> 9]
    @@ [c \in {"a", "b", "c", "d", "e", "f"} |->
        CASE c = "a" -> 10 [] c = "b" -> 11 [] c = "c" -> 12
          [] c = "d" -> 13 [] c = "e" -> 14 [] c = "f" -> 15]
    @@ [c \in {"A", "B", "C", "D", "E", "F"} |->
        CASE c = "A" -> 10 [] c = "B" -> 11 [] c = "C" -> 12
          [] c = "D" -> 13 [] c = "E" -> 14 [] c = "F" -> 15]

HexChar == <<"0", "1", "2", "3", "4", "5", "6", "7", "8", "9", "a", "b", "c", "d", "e", "f">>

\* bson.ObjectId(s): raises InvalidId unless s is ObjectIdLen hex digits
ObjectIdValid(s) ==
    Len(s) = ObjectIdLen /\ \A i \in 1..Len(s) : s[i] \in DOMAIN HexVal
ObjectId(s) == [i \in 1..ObjectIdLen |-> HexVal[s[i]]]

\* str(ObjectId)
ObjectIdStr(oid) == [i \in 1..ObjectIdLen |-> HexChar[oid[i] + 1]]

\* the n-th ObjectId the store generates (n < 16)
NewObjectId(n) == [i \in 1..ObjectIdLen |-> IF i = ObjectIdLen THEN n ELSE 0]

\* create_document(collection, model): inserts the model's fields and returns
\* the generated id as a string
create_document(store, doc) ==
    LET oid == NewObjectId(Len(store) + 1)
    IN  [store |-> Append(store, [id |-> oid, doc |-> doc]),
         inserted_id |-> ObjectIdStr(oid)]

\* collection.find_one({"_id": oid}): the document, or None
find_one(store, oid) ==
    IF \E i \in 1..Len(store) : store[i].id = oid
    THEN (store[CHOOSE i \in 1..Len(store) : store[i].id = oid]).doc
    ELSE PyNone

\* ------------------------------------------------------------------------
\* Orders (src/main.py 104-125)

RECURSIVE SumItems(_)
\* sum([it.unit_price * it.quantity for it in items])
SumItems(items) ==
    IF items = <<>> THEN 0
    ELSE Head(items).unit_price * Head(items).quantity + SumItems(Tail(items))

\* 1e-2, in money units
Tolerance == 10

\* abs(a - b) > 1e-2
MismatchAtLeast(a, b) == Abs(a - b) >= Tolerance
MismatchNoAbs(a, b) == a - b > Tolerance
Mismatch(a, b) == Abs(a - b) > Tolerance

\* the handler below its storage check (lines 108-125)
validate_and_store(order) ==
    LET subtotal == SumItems(order.items)
        total    == order.subtotal + order.delivery_fee
    IN  IF Mismatch(subtotal, order.subtotal)
        THEN [resp |-> HTTPException(400, <<"Subtotal mismatch">>), orders |-> orders]
        ELSE IF Mismatch(total, order.total)
        THEN [resp |-> HTTPException(400, <<"Total mismatch">>), orders |-> orders]
        ELSE LET order_doc == Order([items |-> order.items, customer |-> order.customer,
                                     subtotal |-> order.subtotal,
                                     delivery_fee |-> order.delivery_fee,
                                     total |-> order.total])
                 ins       == create_document(orders, order_doc)
             IN  [resp |-> Ok([order_id |-> ins.inserted_id, status |-> "pending"]),
                  orders |-> ins.store]

\* POST /orders
create_order_validate_first(order) ==
    LET r == validate_and_store(order)
    IN  IF r.resp.code = 400 THEN r
        ELSE IF ~dbConfigured
        THEN [resp |-> HTTPException(500, <<"Database not configured">>), orders |-> orders]
        ELSE r
create_order(order) ==
    IF ~dbConfigured
    THEN [resp |-> HTTPException(500, <<"Database not configured">>), orders |-> orders]
    ELSE validate_and_store(order)


\* ------------------------------------------------------------------------
\* Payments (src/main.py 127-215)

\* how a try body ends
Return(v) == [kind |-> "return", value |-> v]
Raise(e) == [kind |-> "raise", exc |-> e]

HFPrefix == <<"H", "F", "-">>
DefaultEmail == "orders@horionfarms.ng"

\* the body of init_payment's try block (lines 156-177); gw is what the
\* gateway does with the call: a transport exception, or an answer with a body
live_try_body(order_id, email, total_amount, gw) ==
    LET ref == HFPrefix \o order_id
    IN  IF gw.t = "exception" THEN Raise("RequestException")
        ELSE LET data == gw.json
             IN  IF ~Truthy(Get(data, "status", JNull))
                 THEN Raise(HTTPException(502, <<"Paystack error: ", Get(data, "message", JNull)>>))
                 ELSE IF "data" \notin DOMAIN data THEN Raise("KeyError")
                 ELSE IF data.data.t # "obj" THEN Raise("TypeError")
                 ELSE IF "authorization_url" \notin DOMAIN data.data.v THEN Raise("KeyError")
                 ELSE LET built == PaymentInitResponse(
                                      [authorization_url |-> data.data.v.authorization_url,
                                       reference |-> ref, mode |-> "live"])
                      IN  IF built.ok THEN Return(built.model) ELSE Raise(built.error)

\* the request sent to the gateway's initialize endpoint (lines 157-172)
initialize_call(order_id, email, total_amount) ==
    [endpoint |-> "initialize", email |-> email,
     amount |-> (total_amount * 100) \div MoneyScale,
     reference |-> HFPrefix \o order_id, currency |-> "NGN"]

\* "Simulated mode" (lines 183-185)
simulated_init(order_id) ==
    LET reference == HFPrefix \o order_id
        authorization_url == <<"https://pay.horionfarms.ng/checkout/">> \o reference
        built == PaymentInitResponse([authorization_url |-> PyStr(authorization_url),
                                      reference |-> reference, mode |-> "simulated"])
    IN  IF built.ok THEN Ok(built.model) ELSE Unhandled(built.error)

\* init_payment once the order document is found (lines 147-185)
init_payment_found(order_id, doc, gw) ==
    LET total_amount == Get(doc, "total", 0)
        customer     == Get(doc, "customer", <<>>)
        found_email  == Get(customer, "email", "")
        email        == IF found_email # "" THEN found_email ELSE DefaultEmail
    IN  IF secretKey
        THEN LET r == live_try_body(order_id, email, total_amount, gw)
             IN  [resp |-> IF r.kind = "return" THEN Ok(r.value) ELSE simulated_init(order_id),
                  call |-> initialize_call(order_id, email, total_amount),
                  orders |-> orders]
        ELSE [resp |-> simulated_init(order_id), call |-> NoCall, orders |-> orders]

\* the order lookup (lines 140-143): a malformed id is "no document"
lookup_order(order_id) ==
    IF ObjectIdValid(order_id) THEN find_one(orders, ObjectId(order_id)) ELSE PyNone

\* POST /payments/init
init_payment_strict(payload, gw) ==
    LET order_id == payload.order_id
    IN  IF order_id = <<>>
        THEN [resp |-> HTTPException(400, <<"order_id required">>), call |-> NoCall, orders |-> orders]
        ELSE IF ~dbConfigured
        THEN [resp |-> HTTPException(500, <<"Database not configured">>), call |-> NoCall, orders |-> orders]
        ELSE IF ~ObjectIdValid(order_id)
        THEN [resp |-> HTTPException(400, <<"Invalid order_id">>), call |-> NoCall, orders |-> orders]
        ELSE LET doc == lookup_order(order_id)
             IN  IF doc = PyNone
                 THEN [resp |-> HTTPException(404, <<"Order not found">>), call |-> NoCall, orders |-> orders]
                 ELSE init_payment_found(order_id, doc, gw)
init_payment(payload, gw) ==
    LET order_id == payload.order_id
    IN  IF order_id = <<>>
        THEN [resp |-> HTTPException(400, <<"order_id required">>), call |-> NoCall, orders |-> orders]
        ELSE IF ~dbConfigured
        THEN [resp |-> HTTPException(500, <<"Database not configured">>), call |-> NoCall, orders |-> orders]
        ELSE LET doc == lookup_order(order_id)
             IN  IF doc = PyNone
                 THEN [resp |-> HTTPException(404, <<"Order not found">>), call |-> NoCall, orders |-> orders]
                 ELSE init_payment_found(order_id, doc, gw)

\* the body of verify_payment's try block (lines 195-210)
verify_try_body(reference, gw) ==
    IF gw.t = "exception" THEN Raise("RequestException")
    ELSE LET data == gw.json
         IN  IF ~Truthy(Get(data, "status", JNull))
             THEN Return([status |-> "failed", paid |-> FALSE])
             ELSE LET inner == Get(data, "data", JObj(<<>>))
                  IN  IF inner.t # "obj" THEN Raise("AttributeError")
                      ELSE IF Get(inner.v, "status", JNull) = JStr("success")
                      THEN Return([status |-> "success", paid |-> TRUE])
                      ELSE Return([status |-> "failed", paid |-> FALSE])

\* what verify_payment answers (lines 192-215)
verify_response(reference, gw) ==
    LET simulated == PaymentVerifyResponse([status |-> "success", order_status |-> "paid",
                                            reference |-> reference, paid |-> TRUE])
        r == verify_try_body(reference, gw)
        live == PaymentVerifyResponse(
                    [status |-> r.value.status,
                     order_status |-> IF r.value.paid THEN "paid" ELSE "failed",
                     reference |-> reference, paid |-> r.value.paid])
        built == IF secretKey /\ r.kind = "return" THEN live ELSE simulated
    IN  IF built.ok THEN Ok(built.model) ELSE Unhandled(built.error)

\* an order marked paid under a reference
MarkPaid(store, reference) ==
    [i \in 1..Len(store) |->
        IF HFPrefix \o ObjectIdStr(store[i].id) = reference
        THEN [store[i] EXCEPT !.doc.status = "paid", !.doc.payment_reference = PyStr(reference)]
        ELSE store[i]]

\* GET /payments/verify?reference=
verify_payment_marks_paid(reference, gw) ==
    LET resp == verify_response(reference, gw)
    IN  [resp |-> resp,
         call |-> IF secretKey THEN [endpoint |-> "verify", reference |-> reference] ELSE NoCall,
         orders |-> IF resp.code = 200 /\ resp.body.paid THEN MarkPaid(orders, reference) ELSE orders]
verify_payment(reference, gw) ==
    [resp |-> verify_response(reference, gw),
     call |-> IF secretKey THEN [endpoint |-> "verify", reference |-> reference] ELSE NoCall,
     orders |-> orders]


\* ------------------------------------------------------------------------
\* Requests

MaxOrders == 1

ItemA == [name |-> "eggs", unit_price |-> 10 * MoneyScale, quantity |-> 2]
ItemB == [name |-> "yam", unit_price |-> 5 * MoneyScale, quantity |-> 1]
ItemLists == {<<>>, <<ItemA>>, <<ItemA, ItemB>>}

Customer ==
    [name |-> "Ada", email |-> "ada@example.com", phone |-> "0800",
     address |-> "1 Marina", city |-> "Lagos"]

\* how far the submitted subtotal / total is from the recomputed one
Deltas == {-11, 0, 10, 11}
Fees == {5 * MoneyScale}

\* the request bodies FastAPI accepts as OrderCreate
Candidates ==
    {o \in {[items |-> its, customer |-> Customer,
             subtotal |-> SumItems(its) + ds, delivery_fee |-> fee,
             total |-> SumItems(its) + ds + fee + dt] :
                its \in ItemLists, ds \in Deltas, fee \in Fees, dt \in Deltas} :
        IsOrderCreate(o)}

StoredIds == {ObjectIdStr(NewObjectId(n)) : n \in 1..MaxOrders}
UnknownId == [i \in 1..ObjectIdLen |-> "f"]
NonHexId == [i \in 1..ObjectIdLen |-> "g"]
OrderIdInputs == {<<>>, <<"x", "y", "z">>, NonHexId, UnknownId} \cup StoredIds

\* what the gateway does with an initialize call
InitAnswers ==
    { [t |-> "exception"],
      [t |-> "answer", json |-> [status |-> JBool(FALSE), message |-> JStr(<<"Invalid key">>)]],
      [t |-> "answer", json |-> [status |-> JBool(TRUE), message |-> JStr(<<"Authorization URL created">>)]],
      [t |-> "answer", json |-> [status |-> JBool(TRUE),
                                 data |-> JObj([authorization_url |-> JStr(<<"https://checkout.paystack.com/abc">>)])]] }

\* what the gateway does with a verify call
VerifyAnswers ==
    { [t |-> "exception"],
      [t |-> "answer", json |-> [status |-> JBool(FALSE), message |-> JStr(<<"Transaction reference not found">>)]],
      [t |-> "answer", json |-> [status |-> JBool(TRUE), data |-> JObj([status |-> JStr("success")])]],
      [t |-> "answer", json |-> [status |-> JBool(TRUE), data |-> JObj([status |-> JStr("failed")])]],
      [t |-> "answer", json |-> [status |-> JBool(TRUE), data |-> JObj(<<>>)]],
      [t |-> "answer", json |-> [status |-> JBool(TRUE)]],
      [t |-> "answer", json |-> [status |-> JBool(TRUE), data |-> JNull]] }

ReferenceInputs == {<<>>, <<"b", "o", "g", "u", "s">>} \cup {HFPrefix \o id : id \in StoredIds}

UnknownCities == {"Unknown", "Ife", ""}
QueriesOver(cities) ==
    {[city |-> c] : c \in cities} \cup {[city |-> c, hub |-> h] : c \in cities, h \in cities}
\* the /eta queries mixed with the other requests, and all of them
EtaQueries == QueriesOver({"Lagos", "Abuja", "Unknown"})
AllEtaQueries == QueriesOver(DOMAIN CITY_COORDS \cup UnknownCities)

\* ------------------------------------------------------------------------
\* The state machine: one step per request

Init ==
    /\ dbConfigured \in BOOLEAN
    /\ secretKey \in BOOLEAN
    /\ orders = <<>>
    /\ last = [op |-> "none", req |-> <<>>, gw |-> NoAnswer, call |-> NoCall,
               code |-> 0, body |-> <<>>]

Answer(op, req, gw, r) ==
    /\ orders' = r.orders
    /\ last' = [op |-> op, req |-> req, gw |-> IF r.call = NoCall THEN NoAnswer ELSE gw,
                call |-> r.call, code |-> r.resp.code, body |-> r.resp.body]
    /\ UNCHANGED <<dbConfigured, secretKey>>

CreateOrder ==
    \E o \in Candidates :
        LET r == create_order(o)
        IN  /\ Len(r.orders) <= MaxOrders
            /\ Answer("create_order", o, NoAnswer, [resp |-> r.resp, orders |-> r.orders, call |-> NoCall])

InitPayment ==
    \E id \in OrderIdInputs, pm \in PaymentMethods, gw \in InitAnswers :
        LET payload == [order_id |-> id, payment_method |-> pm]
        IN  Answer("init_payment", payload, gw, init_payment(payload, gw))

VerifyPayment ==
    \E ref \in ReferenceInputs, gw \in VerifyAnswers :
        Answer("verify_payment", [reference |-> ref], gw, verify_payment(ref, gw))

EtaStep(queries) ==
    \E q \in queries :
        Answer("eta", q, NoAnswer, [resp |-> eta(q), orders |-> orders, call |-> NoCall])

Eta == EtaStep(EtaQueries)

EtaAny == EtaStep(AllEtaQueries)

Next == CreateOrder \/ InitPayment \/ VerifyPayment \/ Eta

Spec == Init /\ [][Next]_vars

NextEta == EtaAny

SpecEta == Init /\ [][NextEta]_vars


\* ------------------------------------------------------------------------
\* Properties

\* the static City/Hub table's names
TableNames == DOMAIN NIGERIA_CITY_HUBS

\* order_id resolves to a stored order
Resolves(order_id) ==
    ObjectIdValid(order_id) /\ \E i \in 1..Len(orders) : orders[i].id = ObjectId(order_id)

\* |x| money units is more than 0.01 naira
MoreThanACent(x) == 100 * Abs(x) > MoneyScale

SimulatedUrl(reference) == PyStr(<<"https://pay.horionfarms.ng/checkout/">> \o reference)

\* C1: with no gateway credential, the Data Store configured and order_id
\* resolving to a stored order, init_payment answers 200 with mode "simulated",
\* reference "HF-" + order_id and the checkout URL derived from the reference.
C1_SimulatedInitReturns ==
    (/\ last.op = "init_payment" /\ ~secretKey /\ dbConfigured
     /\ Resolves(last.req.order_id))
    => /\ last.code = 200
       /\ last.body.mode = "simulated"
       /\ last.body.reference = HFPrefix \o last.req.order_id
       /\ last.body.authorization_url = SimulatedUrl(last.body.reference)

\* C2: with credentials, when the gateway answers the initialize call with a
\* false status, init_payment fails with 502 carrying the gateway's message.
C2_GatewayFailureIs502 ==
    (/\ last.op = "init_payment" /\ secretKey /\ last.gw.t = "answer"
     /\ ~Truthy(Get(last.gw.json, "status", JNull)))
    => /\ last.code = 502
       /\ last.body.detail = <<"Paystack error: ", Get(last.gw.json, "message", JNull)>>

\* the gateway's verify answer reports "success"
GatewaySuccess(json) ==
    /\ Truthy(Get(json, "status", JNull))
    /\ "data" \in DOMAIN json
    /\ json.data.t = "obj"
    /\ Get(json.data.v, "status", JNull) = JStr("success")

VerifyBody(reference, paid) ==
    [status |-> IF paid THEN "success" ELSE "failed",
     order_status |-> IF paid THEN "paid" ELSE "failed",
     reference |-> reference, paid |-> paid]

\* C3: verify_payment never fails; without credentials or after a transport
\* exception it reports paid; when the gateway answered it reports paid exactly
\* when the gateway outcome is "success", and failed for any other answer.
C3_VerifyDetermined ==
    last.op = "verify_payment"
    => /\ last.code = 200
       /\ last.body = VerifyBody(last.req.reference,
                                 \/ ~secretKey
                                 \/ last.gw.t = "exception"
                                 \/ GatewaySuccess(last.gw.json))

\* the stored document of the order a create_order answer names
StoredAs(order_id, o) ==
    /\ Len(orders) > 0
    /\ ObjectIdStr(orders[Len(orders)].id) = order_id
    /\ LET d == orders[Len(orders)].doc
       IN  /\ d.items = o.items /\ d.customer = o.customer
           /\ d.subtotal = o.subtotal /\ d.delivery_fee = o.delivery_fee
           /\ d.total = o.total

C4_Decision ==
    (last.op = "create_order" /\ dbConfigured)
    => LET o      == last.req
           subBad == MoreThanACent(SumItems(o.items) - o.subtotal)
           totBad == MoreThanACent(o.subtotal + o.delivery_fee - o.total)
       IN  /\ subBad => last.code = 400 /\ last.body.detail = <<"Subtotal mismatch">>
           /\ (~subBad /\ totBad) => last.code = 400 /\ last.body.detail = <<"Total mismatch">>
           /\ (~subBad /\ ~totBad) =>
                /\ last.code = 200
                /\ last.body.status = "pending"
                /\ StoredAs(last.body.order_id, o)

C4_OneOrderPersisted ==
    (last'.op = "create_order" /\ last'.code = 200) => Len(orders') = Len(orders) + 1

PricingHolds(d) ==
    /\ ~MoreThanACent(d.subtotal - SumItems(d.items))
    /\ ~MoreThanACent(d.total - (d.subtotal + d.delivery_fee))

C5_RejectedAddsNothing ==
    (last'.op = "create_order" /\ last'.code # 200) => orders' = orders

\* C5: after any sequence of requests every stored order satisfies both
\* pricing invariants within 0.01, and a rejected create_order adds no order.
C5_StoredOrdersPriced ==
    [](\A i \in 1..Len(orders) : PricingHolds(orders[i].doc)) /\ [][C5_RejectedAddsNothing]_vars

C5_Witness ==
    /\ Len(orders) > 0
    /\ orders[1].doc.subtotal # SumItems(orders[1].doc.items)
    /\ last.op = "create_order" /\ last.code = 400

C6_PaymentStepKeepsStore ==
    last'.op \in {"init_payment", "verify_payment"} => orders' = orders

\* C6: init_payment and verify_payment leave the stored orders unchanged, so
\* every stored order keeps status "pending" and no payment_reference, even
\* after a verify_payment that reported paid=true for its reference.
C6_PaymentsNeverTouchStore ==
    /\ [](\A i \in 1..Len(orders) :
            orders[i].doc.status = "pending" /\ orders[i].doc.payment_reference = PyNone)
    /\ [][C6_PaymentStepKeepsStore]_vars

C6_Witness ==
    /\ Len(orders) > 0
    /\ last.op = "verify_payment" /\ last.code = 200 /\ last.body.paid
    /\ last.req.reference = HFPrefix \o ObjectIdStr(orders[1].id)

\* C7: /eta answers 400 exactly when the city or the hub (the default hub
\* "Lagos" when none is given) is not in the static table, and otherwise
\* succeeds and returns the requested city and hub.
C7_UnsupportedLocation ==
    last.op = "eta"
    => LET city == last.req.city
           hub  == IF "hub" \in DOMAIN last.req THEN last.req.hub ELSE "Lagos"
       IN  IF city \in TableNames /\ hub \in TableNames
           THEN last.code = 200 /\ last.body.city = city /\ last.body.hub = hub
           ELSE last.code = 400 /\ last.body.detail = <<"Unsupported city or hub">>

C7_Witness ==
    /\ last.op = "eta" /\ "hub" \notin DOMAIN last.req
    /\ last.req.city = "Unknown" /\ last.code = 400

\* C8: without a Data Store create_order answers 500 for every candidate,
\* mismatching or not, and nothing is persisted.
C8_StorageUnavailable ==
    ~dbConfigured
    => /\ orders = <<>>
       /\ last.op = "create_order"
          => last.code = 500 /\ last.body.detail = <<"Database not configured">>

C8_Witness ==
    /\ ~dbConfigured /\ last.op = "create_order" /\ last.code = 500
    /\ MoreThanACent(SumItems(last.req.items) - last.req.subtotal)

\* C9: init_payment answers 400 for an empty order_id, else 500 without a Data
\* Store, else 404 with no gateway call when order_id does not resolve to a
\* stored order (malformed identifiers included), with or without credentials.
C9_OrderNotFound ==
    last.op = "init_payment"
    => LET order_id == last.req.order_id
       IN  /\ order_id = <<>>
              => last.code = 400 /\ last.body.detail = <<"order_id required">>
           /\ (order_id # <<>> /\ ~dbConfigured)
              => last.code = 500 /\ last.body.detail = <<"Database not configured">>
           /\ (order_id # <<>> /\ dbConfigured /\ ~Resolves(order_id))
              => /\ last.code = 404 /\ last.body.detail = <<"Order not found">>
                 /\ last.call = NoCall

C9_Witness ==
    /\ last.op = "init_payment" /\ dbConfigured /\ secretKey /\ Len(orders) > 0
    /\ last.req.order_id = NonHexId /\ last.code = 404

\* what the spec's formula gives for a hub and a city of the table, in tenths
EtaFormula(hub, city) ==
    LET h == NIGERIA_CITY_HUBS[hub]
    IN  Round1(h.base_hours * 10000 + (KmTable[hub][city] * h.per_km_min) \div 600)

C10_Formula ==
    (last.op = "eta" /\ last.code = 200)
    => LET city == last.body.city
           hub  == last.body.hub
       IN  /\ last.body.eta_hours = EtaFormula(hub, city)
           /\ last.body.distance_km = Round1(KmTable[hub][city])
           /\ last.body.cold_chain = NIGERIA_CITY_HUBS[hub].cold_chain
           /\ KmTable[hub][hub] = 0
           /\ \A c \in TableNames :
                KmTable[hub][c] <= KmTable[hub][city]
                => eta([city |-> c, hub |-> hub]).body.eta_hours <= last.body.eta_hours

\* C10 as amended: for every supported hub and city, eta_hours is the hub's
\* base_hours plus distance times the hub's per-km cost over 60, from the
\* unrounded distance, rounded to 1 decimal, with distance_km rounded to 1
\* decimal and cold_chain the hub's flag, non-decreasing in distance for a
\* fixed hub; hub "Lagos" and city "Abuja" give 525.9 km and 16.5 hours.
C10_EtaFormulaAmended ==
    /\ C10_Formula
    /\ (last.op = "eta" /\ last.code = 200 /\ last.body.hub = "Lagos" /\ last.body.city = "Abuja")
       => last.body.distance_km = 5259 /\ last.body.eta_hours = 165

\* C10 as written: the same, with hub "Lagos" and city "Abuja" giving
\* about 758.7 km and about 21.2 hours.
C10_EtaFormulaOriginal ==
    /\ C10_Formula
    /\ (last.op = "eta" /\ last.code = 200 /\ last.body.hub = "Lagos" /\ last.body.city = "Abuja")
       => /\ Abs(last.body.distance_km - 7587) <= 1
          /\ Abs(last.body.eta_hours - 212) <= 1

C10_Witness ==
    /\ last.op = "eta" /\ last.code = 200 /\ "hub" \notin DOMAIN last.req
    /\ last.body.hub = "Lagos" /\ last.body.city = "Abuja"
    /\ last.body.distance_km = 5259

====
